---- MODULE Spec2Model ----
(***************************************************************************)
(* Inventory service (src/server.js): product and stock-movement records   *)
(* kept either in a MongoDB store (through mongoose) or in process-local   *)
(* arrays, the choice being the flag useInMemory.                          *)
(*                                                                         *)
(* In-memory handlers contain no await before their last statement, so     *)
(* each one is a single atomic action.  Persistent handlers suspend at     *)
(* every await; each awaited store operation is one atomic action and      *)
(* other requests may run between two of them.                             *)
(***************************************************************************)
EXTENDS Integers, Sequences, FiniteSets, TLC

VARIABLES
    useInMemory,           \* line 19
    conn,                  \* state of the promise of mongoose.connect (line 26)
    listening,             \* the callback of app.listen has run (line 379)
    inMemoryProducts,      \* line 38
    inMemoryTransactions,  \* line 39
    productIdCounter,      \* line 40
    transactionIdCounter,  \* line 41
    dbProducts,            \* collection of the Product model (line 69)
    dbTransactions,        \* collection of the Transaction model (line 70)
    oidCounter,            \* number of ObjectIds generated so far
    reqs,                  \* persistent-mode requests suspended at an await
    clock,                 \* value of the last new Date() / request arrival
    res,                   \* the last HTTP response sent
    ledger,                \* history: per stored product, the quantity that
                           \* the recorded operations add up to
    interference           \* history: some persistent request overlapped
                           \* another one or was cut short by a store error

vars == <<useInMemory, conn, listening, inMemoryProducts, inMemoryTransactions,
          productIdCounter, transactionIdCounter, dbProducts, dbTransactions,
          oidCounter, reqs, clock, res, ledger, interference>>

memVars == <<inMemoryProducts, inMemoryTransactions, productIdCounter,
             transactionIdCounter>>
dbVars == <<dbProducts, dbTransactions, oidCounter, reqs, ledger, interference>>
bootVars == <<useInMemory, conn, listening>>

----------------------------------------------------------------------------
(* Bounds *)

\* number of requests the server accepts in one run
MaxClock == 3

\* number of persistent-mode requests that may be suspended at the same time
MaxInFlight == 2

----------------------------------------------------------------------------
(* Inputs of the requests *)

Skus == {"X-1"}
Quantities == {0, 5}
ReorderPoints == {3, 10}
Amounts == {5}
Types == {"IN", "OUT", "DAMAGE", "RETURN", "ADJUST"}

\* req.body of POST /api/products
ProductBodies == [sku : Skus, quantity : Quantities, reorderPoint : ReorderPoints]

\* req.body of PUT /api/products/:id : the fields that are supplied
UpdateBodies == {[quantity |-> q] : q \in Quantities}
                \cup {[reorderPoint |-> r] : r \in ReorderPoints}

\* ids used by the in-memory requests; "0" is never assigned
MemTargets == {"0", "1", "2"}

\* value of a field that was never assigned
Undefined == -1

----------------------------------------------------------------------------
(* Pure helpers *)

Digit == <<"0", "1", "2", "3", "4", "5", "6", "7", "8", "9">>

RECURSIVE String(_)
String(n) == IF n < 10 THEN Digit[n + 1]
             ELSE String(n \div 10) \o Digit[(n % 10) + 1]

\* a lookup that falls back to the last element when nothing matches
FindIndexOrLast(products, id) ==
    IF \E i \in 1..Len(products) : products[i]._id = id
    THEN CHOOSE i \in 1..Len(products) :
            /\ products[i]._id = id
            /\ \A j \in 1..(i - 1) : products[j]._id # id
    ELSE Len(products)

\* Array.prototype.findIndex on the _id; 0 stands for JavaScript's -1
FindIndex(products, id) ==
    IF \E i \in 1..Len(products) : products[i]._id = id
    THEN CHOOSE i \in 1..Len(products) :
            /\ products[i]._id = id
            /\ \A j \in 1..(i - 1) : products[j]._id # id
    ELSE 0

\* Array.prototype.splice(index, 1)
Splice(s, index) == [i \in 1..(Len(s) - 1) |-> IF i < index THEN s[i] ELSE s[i + 1]]

updateProductStatusNonPositive(product) ==
    IF product.quantity <= 0
    THEN [product EXCEPT !.status = "Out of Stock"]
    ELSE IF product.quantity <= product.reorderPoint
         THEN [product EXCEPT !.status = "Low Stock"]
         ELSE [product EXCEPT !.status = "In Stock"]

updateProductStatus(product) ==
    IF product.quantity = 0
    THEN [product EXCEPT !.status = "Out of Stock"]
    ELSE IF product.quantity <= product.reorderPoint
         THEN [product EXCEPT !.status = "Low Stock"]
         ELSE [product EXCEPT !.status = "In Stock"]

\* { ...target, ...body } for the fields a body may carry
Merge(target, body) ==
    [f \in DOMAIN target |-> IF f \in DOMAIN body THEN body[f] ELSE target[f]]

\* lines 221-225 / 253-257
AdjustQuantityClamped(quantity, type, amount) ==
    IF type \in {"IN", "RETURN"} THEN quantity + amount
    ELSE IF type \in {"OUT", "DAMAGE"}
         THEN (IF quantity - amount < 0 THEN 0 ELSE quantity - amount)
         ELSE quantity

AdjustQuantity(quantity, type, amount) ==
    IF type \in {"IN", "RETURN"} THEN quantity + amount
    ELSE IF type \in {"OUT", "DAMAGE"} THEN quantity - amount
         ELSE quantity

\* lines 227-229 / 259-261
RestockedAnyInbound(lastRestocked, type, now) ==
    IF type \in {"IN", "RETURN"} THEN now ELSE lastRestocked

Restocked(lastRestocked, type, now) ==
    IF type = "IN" THEN now ELSE lastRestocked

\* lines 343-351: sku, quantity and reorderPoint of the demo catalog
sampleProducts == <<
    [sku |-> "SR-10MM-001", quantity |-> 150,  reorderPoint |-> 50],
    [sku |-> "CM-50KG-001", quantity |-> 200,  reorderPoint |-> 100],
    [sku |-> "BR-RC-001",   quantity |-> 5000, reorderPoint |-> 1000],
    [sku |-> "SD-T-001",    quantity |-> 25,   reorderPoint |-> 10],
    [sku |-> "PT-W20-001",  quantity |-> 8,    reorderPoint |-> 15],
    [sku |-> "TL-C22-001",  quantity |-> 3,    reorderPoint |-> 20],
    [sku |-> "PW-8MM-001",  quantity |-> 45,   reorderPoint |-> 20] >>

Response(op, status, at) == [op |-> op, status |-> status, at |-> at]

----------------------------------------------------------------------------
(* Start of the process, lines 19-35 and 379-383 *)

\* mongoose.connect either returns a pending promise (useInMemory stays false)
\* or throws synchronously into the catch of line 32
Init ==
    /\ \/ useInMemory = FALSE /\ conn = "pending"
       \/ useInMemory = TRUE /\ conn = "failed"
    /\ listening = FALSE
    /\ inMemoryProducts = << >>
    /\ inMemoryTransactions = << >>
    /\ productIdCounter = 1
    /\ transactionIdCounter = 1
    /\ dbProducts = << >>
    /\ dbTransactions = << >>
    /\ oidCounter = 0
    /\ reqs = {}
    /\ clock = 0
    /\ res = Response("none", 0, 0)
    /\ ledger = [x \in {} |-> 0]
    /\ interference = FALSE

\* line 379: the server starts to accept requests
Listen ==
    /\ ~listening
    /\ listening' = TRUE
    /\ UNCHANGED <<useInMemory, conn, memVars, dbVars, clock, res>>

\* line 27
ConnectResolved ==
    /\ conn = "pending"
    /\ conn' = "connected"
    /\ UNCHANGED <<useInMemory, listening, memVars, dbVars, clock, res>>

\* lines 28-31
ConnectRejected ==
    /\ conn = "pending"
    /\ conn' = "failed"
    /\ useInMemory' = TRUE
    /\ UNCHANGED <<listening, memVars, dbVars, clock, res>>

\* a request is dispatched to its handler
Accepting == listening /\ clock < MaxClock

----------------------------------------------------------------------------
(* In-memory handlers *)

\* lines 86-92
Health ==
    /\ Accepting
    /\ clock' = clock + 1
    /\ res' = Response(IF useInMemory THEN "health in-memory" ELSE "health mongodb",
                       200, clock')
    /\ UNCHANGED <<bootVars, memVars, dbVars>>

\* lines 132-141
MemCreateProduct(body) ==
    /\ Accepting /\ useInMemory
    /\ clock' = clock + 1
    /\ LET newProduct == updateProductStatus(
               [_id |-> String(productIdCounter), sku |-> body.sku,
                quantity |-> body.quantity, reorderPoint |-> body.reorderPoint,
                status |-> "", lastRestocked |-> Undefined,
                createdAt |-> clock'])
       IN inMemoryProducts' = Append(inMemoryProducts, newProduct)
    /\ productIdCounter' = productIdCounter + 1
    /\ res' = Response("createProduct", 201, clock')
    /\ UNCHANGED <<bootVars, inMemoryTransactions, transactionIdCounter, dbVars>>

\* lines 156-168
MemUpdateProduct(id, body) ==
    /\ Accepting /\ useInMemory
    /\ clock' = clock + 1
    /\ LET index == FindIndex(inMemoryProducts, id)
       IN IF index = 0
          THEN /\ res' = Response("updateProduct", 404, clock')
               /\ UNCHANGED inMemoryProducts
          ELSE /\ inMemoryProducts' =
                     [inMemoryProducts EXCEPT
                        ![index] = updateProductStatus(Merge(inMemoryProducts[index], body))]
               /\ res' = Response("updateProduct", 200, clock')
    /\ UNCHANGED <<bootVars, inMemoryTransactions, productIdCounter,
                   transactionIdCounter, dbVars>>

\* a delete that also drops the transactions of the product
MemDeleteProductCascade(id) ==
    /\ Accepting /\ useInMemory
    /\ clock' = clock + 1
    /\ LET index == FindIndex(inMemoryProducts, id)
       IN IF index = 0
          THEN /\ res' = Response("deleteProduct", 404, clock')
               /\ UNCHANGED <<inMemoryProducts, inMemoryTransactions>>
          ELSE /\ inMemoryProducts' = Splice(inMemoryProducts, index)
               /\ inMemoryTransactions' =
                     SelectSeq(inMemoryTransactions, LAMBDA t : t.productId # id)
               /\ res' = Response("deleteProduct", 200, clock')
    /\ UNCHANGED <<bootVars, productIdCounter, transactionIdCounter, dbVars>>

\* lines 190-196
MemDeleteProduct(id) ==
    /\ Accepting /\ useInMemory
    /\ clock' = clock + 1
    /\ LET index == FindIndex(inMemoryProducts, id)
       IN IF index = 0
          THEN /\ res' = Response("deleteProduct", 404, clock')
               /\ UNCHANGED inMemoryProducts
          ELSE /\ inMemoryProducts' = Splice(inMemoryProducts, index)
               /\ res' = Response("deleteProduct", 200, clock')
    /\ UNCHANGED <<bootVars, inMemoryTransactions, productIdCounter,
                   transactionIdCounter, dbVars>>

\* lines 212-245
MemCreateTransaction(productId, type, quantity) ==
    /\ Accepting /\ useInMemory
    /\ clock' = clock + 1
    /\ LET index == FindIndex(inMemoryProducts, productId)
       IN IF index = 0
          THEN /\ res' = Response("createTransaction", 404, clock')
               /\ UNCHANGED <<inMemoryProducts, inMemoryTransactions,
                              transactionIdCounter>>
          ELSE LET product == inMemoryProducts[index]
                   moved == [product EXCEPT
                               !.quantity = AdjustQuantity(@, type, quantity),
                               !.lastRestocked = Restocked(@, type, clock')]
                   transaction == [_id |-> String(transactionIdCounter),
                                   productId |-> productId, type |-> type,
                                   quantity |-> quantity, createdAt |-> clock']
               IN /\ inMemoryProducts' =
                        [inMemoryProducts EXCEPT ![index] = updateProductStatus(moved)]
                  /\ transactionIdCounter' = transactionIdCounter + 1
                  /\ inMemoryTransactions' = Append(inMemoryTransactions, transaction)
                  /\ res' = Response("createTransaction", 201, clock')
    /\ UNCHANGED <<bootVars, productIdCounter, dbVars>>

\* lines 353-363
MemSeed ==
    /\ Accepting /\ useInMemory
    /\ clock' = clock + 1
    /\ inMemoryProducts' =
          [i \in 1..Len(sampleProducts) |->
              [_id |-> String(i), sku |-> sampleProducts[i].sku,
               quantity |-> sampleProducts[i].quantity,
               reorderPoint |-> sampleProducts[i].reorderPoint,
               status |-> IF sampleProducts[i].quantity <= sampleProducts[i].reorderPoint
                          THEN "Low Stock" ELSE "In Stock",
               lastRestocked |-> clock', createdAt |-> clock']]
    /\ productIdCounter' = Len(inMemoryProducts') + 1
    /\ res' = Response("seed", 200, clock')
    /\ UNCHANGED <<bootVars, inMemoryTransactions, transactionIdCounter, dbVars>>

MemNext ==
    \/ \E body \in ProductBodies : MemCreateProduct(body)
    \/ \E id \in MemTargets, body \in UpdateBodies : MemUpdateProduct(id, body)
    \/ \E id \in MemTargets : MemDeleteProduct(id)
    \/ \E id \in MemTargets, type \in Types, quantity \in Amounts :
          MemCreateTransaction(id, type, quantity)
    \/ MemSeed

----------------------------------------------------------------------------
(* The store behind mongoose.  ObjectIds are fresh values; "o0" is never   *)
(* generated.                                                              *)

ObjectId(n) == "o" \o String(n)

NoDoc == [_id |-> "", sku |-> "", quantity |-> 0, reorderPoint |-> 0,
          status |-> "", lastRestocked |-> Undefined, createdAt |-> Undefined]

\* ids used by the persistent-mode requests
DbTargets ==
    {dbProducts[i]._id : i \in 1..(IF Len(dbProducts) < 2 THEN Len(dbProducts) ELSE 2)}
    \cup {"o0"}

\* the unique index on sku (line 46)
SkuTaken(products, sku) == \E i \in 1..Len(products) : products[i].sku = sku

\* the paths of a document that were assigned a different value since it was read
ModifiedPaths(orig, product) == {f \in DOMAIN product : product[f] # orig[f]}

\* document.save() of a document that came from the store: the modified paths
\* are written to the stored document of the same _id
\* a save that adds the local change of quantity to the stored quantity
SaveModifiedIncrement(products, orig, product) ==
    LET index == FindIndex(products, product._id)
    IN [products EXCEPT
          ![index] = [f \in DOMAIN @ |->
                         IF f = "quantity" THEN @[f] + (product[f] - orig[f])
                         ELSE IF f \in ModifiedPaths(orig, product) THEN product[f]
                         ELSE @[f]]]

SaveModified(products, orig, product) ==
    LET index == FindIndex(products, product._id)
    IN [products EXCEPT
          ![index] = [f \in DOMAIN @ |->
                         IF f \in ModifiedPaths(orig, product) THEN product[f] ELSE @[f]]]

\* save() throws DocumentNotFoundError when it has something to write and the
\* document is gone
SaveFindsDocument(products, orig, product) ==
    \/ ModifiedPaths(orig, product) = {}
    \/ FindIndex(products, product._id) # 0

\* status code of the catch block of each handler
CatchStatus(op) ==
    IF op \in {"deleteProduct", "seed"} THEN 500 ELSE 400

Request(op, pc, at, type, quantity, orig, product) ==
    [op |-> op, pc |-> pc, at |-> at, type |-> type, quantity |-> quantity,
     orig |-> orig, product |-> product]

\* a persistent handler is entered and its store is reachable
DbAccepting == Accepting /\ ~useInMemory /\ conn = "connected"

Overlaps(others) == interference \/ others # {}

Extend(f, k, v) == [x \in DOMAIN f \cup {k} |-> IF x = k THEN v ELSE f[x]]
Without(f, k) == [x \in DOMAIN f \ {k} |-> f[x]]

SignedDelta(type, quantity) == AdjustQuantity(0, type, quantity)

----------------------------------------------------------------------------
(* Persistent handlers *)

\* a store operation of a handler that has just been entered throws
\* (store unreachable, buffering timeout): lines 148, 182, 204, 271, 373
DbFirstOperationThrows(op) ==
    /\ Accepting /\ ~useInMemory
    /\ clock' = clock + 1
    /\ res' = Response(op, CatchStatus(op), clock')
    /\ UNCHANGED <<bootVars, memVars, dbVars>>

\* a catch block that restores the product when the insert of the
\* transaction throws
DbAwaitThrowsRollback(r) ==
    /\ r \in reqs
    /\ reqs' = reqs \ {r}
    /\ res' = Response(r.op, CatchStatus(r.op), r.at)
    /\ interference' = TRUE
    /\ dbProducts' = IF r.pc = "saveTransaction" /\ FindIndex(dbProducts, r.orig._id) # 0
                     THEN [dbProducts EXCEPT ![FindIndex(dbProducts, r.orig._id)] = r.orig]
                     ELSE dbProducts
    /\ UNCHANGED <<bootVars, memVars, dbTransactions, oidCounter, ledger, clock>>

\* the store operation a suspended request waits for throws
DbAwaitThrows(r) ==
    /\ r \in reqs
    /\ reqs' = reqs \ {r}
    /\ res' = Response(r.op, CatchStatus(r.op), r.at)
    /\ interference' = TRUE
    /\ UNCHANGED <<bootVars, memVars, dbProducts, dbTransactions, oidCounter,
                   ledger, clock>>

\* lines 143-146
DbCreateProduct(body) ==
    /\ DbAccepting /\ Cardinality(reqs) < MaxInFlight
    /\ clock' = clock + 1
    /\ IF SkuTaken(dbProducts, body.sku)
       THEN /\ res' = Response("createProduct", 400, clock')
            /\ UNCHANGED <<dbProducts, oidCounter, ledger>>
       ELSE LET product == updateProductStatus(
                    [_id |-> ObjectId(oidCounter + 1), sku |-> body.sku,
                     quantity |-> body.quantity, reorderPoint |-> body.reorderPoint,
                     status |-> "In Stock", lastRestocked |-> clock',
                     createdAt |-> clock'])
            IN /\ dbProducts' = Append(dbProducts, product)
               /\ oidCounter' = oidCounter + 1
               /\ ledger' = Extend(ledger, product._id, product.quantity)
               /\ res' = Response("createProduct", 201, clock')
    /\ interference' = Overlaps(reqs)
    /\ UNCHANGED <<bootVars, memVars, dbTransactions, reqs>>

\* lines 170-178: findByIdAndUpdate, then the status is derived on the
\* returned document
DbUpdateProductFind(id, body) ==
    /\ DbAccepting /\ Cardinality(reqs) < MaxInFlight
    /\ clock' = clock + 1
    /\ LET index == FindIndex(dbProducts, id)
       IN IF index = 0
          THEN /\ res' = Response("updateProduct", 404, clock')
               /\ UNCHANGED <<dbProducts, reqs, ledger>>
          ELSE LET orig == Merge(dbProducts[index], body)
               IN /\ dbProducts' = [dbProducts EXCEPT ![index] = orig]
                  /\ reqs' = reqs \cup {Request("updateProduct", "save", clock', "", 0,
                                                orig, updateProductStatus(orig))}
                  /\ ledger' = IF "quantity" \in DOMAIN body
                               THEN Extend(ledger, id, body.quantity) ELSE ledger
                  /\ UNCHANGED res
    /\ interference' = Overlaps(reqs)
    /\ UNCHANGED <<bootVars, memVars, dbTransactions, oidCounter>>

\* lines 179-180
DbUpdateProductSave(r) ==
    /\ r \in reqs /\ r.op = "updateProduct" /\ r.pc = "save"
    /\ conn = "connected"
    /\ SaveFindsDocument(dbProducts, r.orig, r.product)
    /\ dbProducts' = IF ModifiedPaths(r.orig, r.product) = {} THEN dbProducts
                     ELSE SaveModified(dbProducts, r.orig, r.product)
    /\ reqs' = reqs \ {r}
    /\ res' = Response("updateProduct", 200, r.at)
    /\ interference' = Overlaps(reqs \ {r})
    /\ UNCHANGED <<bootVars, memVars, dbTransactions, oidCounter, ledger, clock>>

\* lines 198-202
DbDeleteProduct(id) ==
    /\ DbAccepting /\ Cardinality(reqs) < MaxInFlight
    /\ clock' = clock + 1
    /\ LET index == FindIndex(dbProducts, id)
       IN IF index = 0
          THEN /\ res' = Response("deleteProduct", 404, clock')
               /\ UNCHANGED <<dbProducts, ledger>>
          ELSE /\ dbProducts' = Splice(dbProducts, index)
               /\ ledger' = Without(ledger, id)
               /\ res' = Response("deleteProduct", 200, clock')
    /\ interference' = Overlaps(reqs)
    /\ UNCHANGED <<bootVars, memVars, dbTransactions, oidCounter, reqs>>

\* lines 247-264: findById, then the local document is adjusted and its save
\* is issued
DbCreateTransactionFind(productId, type, quantity) ==
    /\ DbAccepting /\ Cardinality(reqs) < MaxInFlight
    /\ clock' = clock + 1
    /\ LET index == FindIndex(dbProducts, productId)
       IN IF index = 0
          THEN /\ res' = Response("createTransaction", 404, clock')
               /\ UNCHANGED reqs
          ELSE LET orig == dbProducts[index]
                   moved == [orig EXCEPT
                               !.quantity = AdjustQuantity(@, type, quantity),
                               !.lastRestocked = Restocked(@, type, clock')]
               IN /\ reqs' = reqs \cup {Request("createTransaction", "saveProduct",
                                                clock', type, quantity, orig,
                                                updateProductStatus(moved))}
                  /\ UNCHANGED res
    /\ interference' = Overlaps(reqs)
    /\ UNCHANGED <<bootVars, memVars, dbProducts, dbTransactions, oidCounter, ledger>>

\* line 264 resolves; lines 266-267 issue the insert of the transaction
DbCreateTransactionSaveProduct(r) ==
    /\ r \in reqs /\ r.op = "createTransaction" /\ r.pc = "saveProduct"
    /\ conn = "connected"
    /\ SaveFindsDocument(dbProducts, r.orig, r.product)
    /\ dbProducts' = IF ModifiedPaths(r.orig, r.product) = {} THEN dbProducts
                     ELSE SaveModified(dbProducts, r.orig, r.product)
    /\ reqs' = (reqs \ {r}) \cup {[r EXCEPT !.pc = "saveTransaction"]}
    /\ interference' = Overlaps(reqs \ {r})
    /\ UNCHANGED <<bootVars, memVars, dbTransactions, oidCounter, ledger, clock, res>>

\* line 267 resolves, line 269; the enum of line 63 rejects an unknown type
DbCreateTransactionSaveTransaction(r) ==
    /\ r \in reqs /\ r.op = "createTransaction" /\ r.pc = "saveTransaction"
    /\ conn = "connected"
    /\ r.type \in {"IN", "OUT", "DAMAGE", "RETURN"}
    /\ dbTransactions' = Append(dbTransactions,
          [_id |-> ObjectId(oidCounter + 1), productId |-> r.product._id,
           type |-> r.type, quantity |-> r.quantity, createdAt |-> clock])
    /\ oidCounter' = oidCounter + 1
    /\ ledger' = IF r.product._id \in DOMAIN ledger
                 THEN [ledger EXCEPT ![r.product._id] = @ + SignedDelta(r.type, r.quantity)]
                 ELSE ledger
    /\ reqs' = reqs \ {r}
    /\ res' = Response("createTransaction", 201, r.at)
    /\ interference' = Overlaps(reqs \ {r})
    /\ UNCHANGED <<bootVars, memVars, dbProducts, clock>>

\* a seed that does not empty the collection first
DbSeedKeepExisting ==
    /\ DbAccepting /\ Cardinality(reqs) < MaxInFlight
    /\ clock' = clock + 1
    /\ reqs' = reqs \cup {Request("seed", "insertMany", clock', "", 0, NoDoc, NoDoc)}
    /\ interference' = Overlaps(reqs)
    /\ UNCHANGED <<bootVars, memVars, dbProducts, dbTransactions, oidCounter, res,
                   ledger>>

\* line 365
DbSeedDeleteMany ==
    /\ DbAccepting /\ Cardinality(reqs) < MaxInFlight
    /\ clock' = clock + 1
    /\ dbProducts' = << >>
    /\ ledger' = [x \in {} |-> 0]
    /\ reqs' = reqs \cup {Request("seed", "insertMany", clock', "", 0, NoDoc, NoDoc)}
    /\ interference' = Overlaps(reqs)
    /\ UNCHANGED <<bootVars, memVars, dbTransactions, oidCounter, res>>

\* the documents of lines 366-370
SeedDocuments(now) ==
    [i \in 1..Len(sampleProducts) |->
        updateProductStatus(
            [_id |-> ObjectId(oidCounter + i), sku |-> sampleProducts[i].sku,
             quantity |-> sampleProducts[i].quantity,
             reorderPoint |-> sampleProducts[i].reorderPoint,
             status |-> "In Stock", lastRestocked |-> now, createdAt |-> now])]

\* ordered insertMany: the documents before the first duplicate sku are stored
RECURSIVE InsertOrdered(_, _)
InsertOrdered(products, docs) ==
    IF docs = << >> \/ SkuTaken(products, Head(docs).sku) THEN products
    ELSE InsertOrdered(Append(products, Head(docs)), Tail(docs))

\* lines 366-371
DbSeedInsertMany(r) ==
    /\ r \in reqs /\ r.op = "seed" /\ r.pc = "insertMany"
    /\ conn = "connected"
    /\ LET docs == SeedDocuments(clock)
           stored == InsertOrdered(dbProducts, docs)
           complete == Len(stored) = Len(dbProducts) + Len(docs)
       IN /\ dbProducts' = stored
          /\ ledger' = [x \in DOMAIN ledger \cup
                              {stored[i]._id : i \in (Len(dbProducts) + 1)..Len(stored)} |->
                           IF x \in DOMAIN ledger THEN ledger[x]
                           ELSE stored[FindIndex(stored, x)].quantity]
          /\ res' = Response("seed", IF complete THEN 200 ELSE 500, r.at)
          /\ interference' = (Overlaps(reqs \ {r}) \/ ~complete)
    /\ oidCounter' = oidCounter + Len(sampleProducts)
    /\ reqs' = reqs \ {r}
    /\ UNCHANGED <<bootVars, memVars, dbTransactions, clock>>

DbNext ==
    \/ \E op \in {"createProduct", "updateProduct", "deleteProduct",
                  "createTransaction", "seed"} : DbFirstOperationThrows(op)
    \/ \E r \in reqs : DbAwaitThrows(r)
    \/ \E body \in ProductBodies : DbCreateProduct(body)
    \/ \E id \in DbTargets, body \in UpdateBodies : DbUpdateProductFind(id, body)
    \/ \E r \in reqs : DbUpdateProductSave(r)
    \/ \E id \in DbTargets : DbDeleteProduct(id)
    \/ \E id \in DbTargets, type \in Types, quantity \in Amounts :
          DbCreateTransactionFind(id, type, quantity)
    \/ \E r \in reqs : DbCreateTransactionSaveProduct(r)
    \/ \E r \in reqs : DbCreateTransactionSaveTransaction(r)
    \/ DbSeedDeleteMany
    \/ \E r \in reqs : DbSeedInsertMany(r)

Next ==
    \/ Listen
    \/ ConnectResolved
    \/ ConnectRejected
    \/ Health
    \/ MemNext
    \/ DbNext

Spec == Init /\ [][Next]_vars

----------------------------------------------------------------------------
(* Properties *)

ValidTypes == {"IN", "OUT", "DAMAGE", "RETURN"}

\* the persistent store as left by requests that ran one after the other and
\* to their end
Serial == reqs = {} /\ ~interference

C2_QuantityDelta ==
    [][(res' # res \/ reqs' # reqs) =>
       \A type \in ValidTypes, n \in Amounts :
         LET expected(q) == IF type \in {"IN", "RETURN"} THEN q + n ELSE q - n
             Others(before, after, id) ==
                 /\ Len(after) = Len(before)
                 /\ \A i \in 1..Len(before) :
                       before[i]._id # id =>
                          /\ after[i]._id = before[i]._id
                          /\ after[i].quantity = before[i].quantity
         IN /\ \A id \in MemTargets :
                 (res'.status = 201 /\ MemCreateTransaction(id, type, n)) =>
                    /\ \A i \in 1..Len(inMemoryProducts) :
                          inMemoryProducts[i]._id = id =>
                             inMemoryProducts'[i].quantity =
                                expected(inMemoryProducts[i].quantity)
                    /\ Others(inMemoryProducts, inMemoryProducts', id)
            /\ \A r \in reqs :
                 (r.type = type /\ r.quantity = n /\ DbCreateTransactionSaveProduct(r)) =>
                    /\ \A i \in 1..Len(dbProducts) :
                          dbProducts[i]._id = r.orig._id =>
                             dbProducts'[i].quantity = expected(r.orig.quantity)
                    /\ Others(dbProducts, dbProducts', r.orig._id)]_vars

\* an OUT or DAMAGE transaction has left its product with a negative quantity
C2_Witness ==
    /\ res.op = "createTransaction" /\ res.status = 201
    /\ \/ /\ inMemoryTransactions # << >>
          /\ inMemoryTransactions[Len(inMemoryTransactions)].type \in {"OUT", "DAMAGE"}
          /\ \E i \in 1..Len(inMemoryProducts) :
                /\ inMemoryProducts[i]._id =
                      inMemoryTransactions[Len(inMemoryTransactions)].productId
                /\ inMemoryProducts[i].quantity < 0
       \/ /\ dbTransactions # << >>
          /\ dbTransactions[Len(dbTransactions)].type \in {"OUT", "DAMAGE"}
          /\ \E i \in 1..Len(dbProducts) :
                /\ dbProducts[i]._id = dbTransactions[Len(dbTransactions)].productId
                /\ dbProducts[i].quantity < 0

\* C3: a create-transaction request sets lastRestocked of its product to the
\* time of the transaction iff its type is IN; any other type leaves the
\* stored lastRestocked as it was.
C3_LastRestocked ==
    [][(res' # res \/ reqs' # reqs) =>
       \A type \in Types, n \in Amounts :
         /\ \A id \in MemTargets :
              (res'.status = 201 /\ MemCreateTransaction(id, type, n)) =>
                 \A i \in 1..Len(inMemoryProducts) :
                    inMemoryProducts[i]._id = id =>
                       /\ type = "IN" <=> inMemoryProducts'[i].lastRestocked = clock'
                       /\ type # "IN" => inMemoryProducts'[i].lastRestocked =
                                            inMemoryProducts[i].lastRestocked
         /\ \A r \in reqs :
              (r.type = type /\ r.quantity = n /\ DbCreateTransactionSaveProduct(r)) =>
                 \A i \in 1..Len(dbProducts) :
                    dbProducts[i]._id = r.orig._id =>
                       /\ type = "IN" <=> dbProducts'[i].lastRestocked = r.at
                       /\ type # "IN" => dbProducts'[i].lastRestocked =
                                            dbProducts[i].lastRestocked]_vars

\* a RETURN was applied to a product whose lastRestocked is still the time of
\* an earlier IN
C3_Witness ==
    /\ Len(inMemoryTransactions) >= 2
    /\ LET last == inMemoryTransactions[Len(inMemoryTransactions)]
       IN /\ last.type = "RETURN"
          /\ \E i \in 1..Len(inMemoryProducts), k \in 1..(Len(inMemoryTransactions) - 1) :
                /\ inMemoryProducts[i]._id = last.productId
                /\ inMemoryTransactions[k].productId = last.productId
                /\ inMemoryTransactions[k].type = "IN"
                /\ inMemoryProducts[i].lastRestocked = inMemoryTransactions[k].createdAt
                /\ inMemoryProducts[i].lastRestocked # last.createdAt

\* C4: the transaction log is append-only: a step either leaves the stored
\* transactions as they are or appends exactly one record to them, and only a
\* create-transaction request answered 201 does the latter; deleting, creating
\* or updating a product and seeding leave them unchanged.
C4_AppendOnly ==
    [][LET Appended(before, after) ==
               /\ Len(after) = Len(before) + 1
               /\ SubSeq(after, 1, Len(before)) = before
           Step(before, after) ==
               \/ after = before
               \/ /\ Appended(before, after)
                  /\ res' # res
                  /\ res'.op = "createTransaction" /\ res'.status = 201
       IN /\ Step(inMemoryTransactions, inMemoryTransactions')
          /\ Step(dbTransactions, dbTransactions')
          /\ (res' # res /\ res'.op = "createTransaction" /\ res'.status = 201) =>
                \/ Appended(inMemoryTransactions, inMemoryTransactions')
                \/ Appended(dbTransactions, dbTransactions')]_vars

\* a product was deleted and a transaction that references it is still stored
C4_Witness ==
    /\ res.op = "deleteProduct" /\ res.status = 200
    /\ \/ \E k \in 1..Len(inMemoryTransactions) :
             /\ inMemoryTransactions[k].productId # "0"
             /\ \A i \in 1..Len(inMemoryProducts) :
                   inMemoryProducts[i]._id # inMemoryTransactions[k].productId
       \/ \E k \in 1..Len(dbTransactions) :
             \A i \in 1..Len(dbProducts) :
                dbProducts[i]._id # dbTransactions[k].productId

\* C5 as stated: once a seed operation has completed, the stored products are
\* exactly the 7 items of the demo catalog.
C5_SeedLeavesExactlyCatalog ==
    [][LET IsCatalog(products) ==
               /\ Len(products) = 7
               /\ \A i \in 1..7 :
                     /\ products[i].sku = sampleProducts[i].sku
                     /\ products[i].quantity = sampleProducts[i].quantity
                     /\ products[i].reorderPoint = sampleProducts[i].reorderPoint
       IN /\ MemSeed => IsCatalog(inMemoryProducts')
          /\ \A r \in reqs :
                (DbSeedInsertMany(r) /\ res'.status = 200) => IsCatalog(dbProducts')]_vars

\* C5 amended: once a seed operation has completed, the 7 items of the demo
\* catalog are stored and no product that was stored when the seed began
\* remains; these 7 are the only stored products in in-memory mode, and in
\* persistent mode unless a product was created between the seed's delete and
\* its insert, which is then stored ahead of the 7.
C5_SeedReplaces ==
    [][LET IsCatalog(products) ==
               /\ Len(products) = 7
               /\ \A i \in 1..7 :
                     /\ products[i].sku = sampleProducts[i].sku
                     /\ products[i].quantity = sampleProducts[i].quantity
                     /\ products[i].reorderPoint = sampleProducts[i].reorderPoint
       IN /\ MemSeed =>
                /\ IsCatalog(inMemoryProducts')
                /\ \A i \in 1..7 : inMemoryProducts'[i].createdAt = clock'
          /\ \A r \in reqs :
                (DbSeedInsertMany(r) /\ res'.status = 200) =>
                   /\ Len(dbProducts') = Len(dbProducts) + 7
                   /\ SubSeq(dbProducts', 1, Len(dbProducts)) = dbProducts
                   /\ IsCatalog(SubSeq(dbProducts', Len(dbProducts) + 1, Len(dbProducts')))
                   /\ \A i \in 1..Len(dbProducts') : dbProducts'[i].createdAt >= r.at
                   /\ dbProducts = << >> => IsCatalog(dbProducts')]_vars

\* a persistent seed has completed and a product created during it is stored
\* next to the 7 catalog items
C5_Witness ==
    /\ res.op = "seed" /\ res.status = 200
    /\ Len(dbProducts) = 8
    /\ dbProducts[1].sku = "X-1"
    /\ dbProducts[8].sku = "PW-8MM-001"

C7_LostUpdate ==
    [][\A r \in reqs :
         (/\ DbCreateTransactionSaveProduct(r)
          /\ r.type \in ValidTypes) =>
            \A i \in 1..Len(dbProducts) :
               (dbProducts[i]._id = r.orig._id
                /\ dbProducts[i].quantity # r.orig.quantity) =>
                  /\ dbProducts'[i].quantity =
                        r.orig.quantity + SignedDelta(r.type, r.quantity)
                  /\ dbProducts'[i].quantity #
                        dbProducts[i].quantity + SignedDelta(r.type, r.quantity)]_vars

\* two transactions of one product are recorded, no request is pending, and
\* the stored quantity lacks the delta of one of them
C7_Witness ==
    /\ reqs = {}
    /\ Len(dbTransactions) = 2
    /\ dbTransactions[1].productId = dbTransactions[2].productId
    /\ \E i \in 1..Len(dbProducts) :
          /\ dbProducts[i]._id = dbTransactions[1].productId
          /\ dbProducts[i].quantity # ledger[dbProducts[i]._id]
          /\ \E k \in 1..2 :
                dbProducts[i].quantity =
                   ledger[dbProducts[i]._id]
                   - SignedDelta(dbTransactions[k].type, dbTransactions[k].quantity)

\* C8: in persistent mode the product is saved before the transaction is
\* inserted (the save step records no transaction), and when the insert
\* throws after the save the request is answered with an error, the saved
\* product stays as it is and no transaction is recorded.
C8_NoRollback ==
    [][\A r \in reqs :
         /\ DbCreateTransactionSaveProduct(r) =>
               /\ dbTransactions' = dbTransactions
               /\ res' = res
               /\ \E r2 \in reqs' : r2.at = r.at /\ r2.pc = "saveTransaction"
         /\ (r.op = "createTransaction" /\ r.pc = "saveTransaction"
             /\ DbAwaitThrows(r)) =>
               /\ res'.op = "createTransaction" /\ res'.status = 400
               /\ dbProducts' = dbProducts
               /\ dbTransactions' = dbTransactions]_vars

\* a transaction was answered with an error, the product holds its change and
\* no transaction is recorded
C8_Witness ==
    /\ res.op = "createTransaction" /\ res.status = 400
    /\ reqs = {}
    /\ dbTransactions = << >>
    /\ \E i \in 1..Len(dbProducts) :
          /\ dbProducts[i].sku = "X-1"
          /\ dbProducts[i].quantity # ledger[dbProducts[i]._id]

\* C9: the storage mode does not change once the server accepts requests.
C9_ModeChosenOnce ==
    [][listening => useInMemory' = useInMemory]_vars

\* C10: in in-memory mode productIdCounter never decreases, and an identifier
\* that denotes a stored product never comes to denote a different product.
C10_IdsNeverReassigned ==
    [][/\ productIdCounter' >= productIdCounter
       /\ \A i \in 1..Len(inMemoryProducts), j \in 1..Len(inMemoryProducts') :
             inMemoryProducts[i]._id = inMemoryProducts'[j]._id =>
                /\ inMemoryProducts'[j].sku = inMemoryProducts[i].sku
                /\ inMemoryProducts'[j].createdAt = inMemoryProducts[i].createdAt]_vars

====
